---- MODULE Spec2Model ----
(***************************************************************************)
(* CipherSuite: the Encryption base class and its four ciphers (Caesar,    *)
(* Vigenere, A1Z26, Atbash) as one cipher object driven by a caller.       *)
(*                                                                         *)
(* A character is its byte value 0..255; a std::string is a sequence of    *)
(* bytes.  Arithmetic on characters is done on integers and narrowed back  *)
(* to a byte (ToChar), as the conversion int -> char does.                 *)
(***************************************************************************)
EXTENDS Integers, Sequences, FiniteSets, TLC

VARIABLES
    cipher,             \* dynamic type of the object: which subclass it is
    message,            \* Encryption::message
    encrypted_message,  \* Encryption::encrypted_message
    key,                \* Caesar::key: <<k>> once setKey has stored k, <<>> while nothing has (the member is indeterminate)
    held,               \* what the storage of key holds, modulo 256: every residue until a transform has read it or setKey has written it
    messageKey,         \* Vigenere::messageKey
    fault,              \* "none", "trap" once undefined behaviour, "exception" once an uncaught exception ended the process
    keySet,             \* observer: Caesar::setKey has been called on this object
    rawKey,             \* observer: the argument of the last Caesar::setKey call
    lastOp,             \* observer: the transform run since the last setter ("none" if none)
    rt,                 \* observer: progress of a round trip through this object
    orig,               \* observer: the message the round trip started from
    base,               \* observer: length encrypted_message had when the last transform began to append
    inputs,             \* the caller: "bounded" (any short input) or "documented" (the documented examples)
    keyLine,            \* observer: the line readKey read last
    keyRead             \* observer: what readKey did with it: "none", "rejected", "returned", "threw"

vars == <<cipher, message, encrypted_message, key, held, messageKey, fault,
          keySet, rawKey, lastOp, rt, orig, base, inputs, keyLine, keyRead>>

----------------------------------------------------------------------------
(* Bounds of the exploration *)

\* longest message the caller passes to setMessage
MaxLen == 2
\* longest result an accumulating cipher (A1Z26, Atbash) is let grow to
MaxOut == 6

\* characters of the messages the caller configures, per cipher
\* 'A' 'Z' 'z' ','
CaesarChars   == {65, 90, 122, 44}
\* 'A' 'Z' 'z' ' '
VigenereChars == {65, 90, 122, 32}
\* 'A' 'Z' '1'
A1Z26Chars    == {65, 90, 49}
\* 'A' 'm' ' '
AtbashChars   == {65, 109, 32}

\* keys the caller passes to Caesar::setKey
RawKeys == {-27, -3, 1, 26, 29}
\* keywords the caller passes to Vigenere::setKeyMessage: "", "A", "Z", "1", "{", "bZ"
Keywords == {<<>>, <<65>>, <<90>>, <<49>>, <<123>>, <<98, 90>>}

\* int key; has no initialiser and Caesar has no constructor: until setKey the
\* member holds no value of the program's, only what its storage held before
Indeterminate == <<>>
\* what a transform can read of such a key. encryptChar and decryptChar return
\* char, c + key and c - key cut to eight bits, so of whatever int the storage
\* held exactly its residue modulo 256 reaches a result: any int, one per residue
KeyResidues == 0..255
\* keyword character an index computed modulo zero may read
IndeterminateChars == {0, 66}

SeqsUpTo(S, n) == UNION {[1..m -> S] : m \in 0..n}

\* the messages, keys and keywords of the documented examples
\* "HELLO, WORLD!"
HELLO_WORLD == <<72, 69, 76, 76, 79, 44, 32, 87, 79, 82, 76, 68, 33>>
\* "KHOOR, ZRUOG!"
KHOOR_ZRUOG == <<75, 72, 79, 79, 82, 44, 32, 90, 82, 85, 79, 71, 33>>
\* "Hello, World!"
Hello_World == <<72, 101, 108, 108, 111, 44, 32, 87, 111, 114, 108, 100, 33>>
\* "HELLO"
HELLO == <<72, 69, 76, 76, 79>>
\* "abc"
abc == <<97, 98, 99>>
\* "xyz"
xyz == <<120, 121, 122>>
\* "ATTACKATDAWN"
ATTACKATDAWN == <<65, 84, 84, 65, 67, 75, 65, 84, 68, 65, 87, 78>>
\* "ATTACK AT DAWN"
ATTACK_AT_DAWN == <<65, 84, 84, 65, 67, 75, 32, 65, 84, 32, 68, 65, 87, 78>>
\* "LEMON"
LEMON == <<76, 69, 77, 79, 78>>
\* "SECRET"
SECRET == <<83, 69, 67, 82, 69, 84>>
\* "SVOOL"
SVOOL == <<83, 86, 79, 79, 76>>

CaesarDocMessages   == {HELLO_WORLD, KHOOR_ZRUOG, Hello_World, HELLO, abc}
VigenereDocMessages == {ATTACKATDAWN, ATTACK_AT_DAWN, HELLO}
\* "HELLO", "hello", "AZ", "1", "27", "00", "A1", "8 5", "A, Z!"
A1Z26DocMessages    == {HELLO, <<104, 101, 108, 108, 111>>, <<65, 90>>, <<49>>, <<50, 55>>, <<48, 48>>, <<65, 49>>,
                        <<56, 32, 53>>, <<65, 44, 32, 90, 33>>}
AtbashDocMessages   == {HELLO, SVOOL, Hello_World, HELLO_WORLD, ATTACK_AT_DAWN, abc, xyz}
DocKeys     == {3, -3}
DocKeywords == {LEMON, SECRET}

----------------------------------------------------------------------------
(* <cctype> in the "C" locale, and integer helpers *)

isupper(c) == c >= 65 /\ c <= 90
islower(c) == c >= 97 /\ c <= 122
isalpha(c) == isupper(c) \/ islower(c)
isdigit(c) == c >= 48 /\ c <= 57
tolower(c) == IF isupper(c) THEN c + 32 ELSE c

\* int -> char narrowing (the byte that is kept)
ToChar(n) == n % 256
\* the value of a (signed) char promoted to int
CharVal(c) == IF c >= 128 THEN c - 256 ELSE c
\* C++ % on int: truncates towards zero
CRem(a, b) == IF a >= 0 THEN a % b ELSE -((-a) % b)

\* a byte no <cctype> function is defined for when char is signed
IsHigh(c) == c >= 128
HasHigh(s) == \E i \in 1..Len(s) : IsHigh(s[i])
HasAlpha(s) == \E i \in 1..Len(s) : isalpha(s[i])

RECURSIVE to_string(_)
to_string(n) ==
    IF n < 0 THEN <<45>> \o to_string(-n)
    ELSE IF n < 10 THEN <<48 + n>>
    ELSE to_string(n \div 10) \o <<48 + (n % 10)>>

----------------------------------------------------------------------------
(* std::stoi *)

\* std::stoi on a string that starts with a digit: the leading run of digits
RECURSIVE stoi_digits(_, _)
stoi_digits(s, acc) ==
    IF s # <<>> /\ isdigit(Head(s)) THEN stoi_digits(Tail(s), 10 * acc + (Head(s) - 48))
    ELSE acc
stoi(s) == stoi_digits(s, 0)

isspace(c) == c = 32 \/ (c >= 9 /\ c <= 13)

RECURSIVE SkipSpace(_)
SkipSpace(s) == IF s # <<>> /\ isspace(Head(s)) THEN SkipSpace(Tail(s)) ELSE s

RECURSIVE DigitRun(_)
DigitRun(s) == IF s # <<>> /\ isdigit(Head(s)) THEN <<Head(s)>> \o DigitRun(Tail(s)) ELSE <<>>

RECURSIVE StripZeros(_)
StripZeros(s) == IF s # <<>> /\ Head(s) = 48 THEN StripZeros(Tail(s)) ELSE s

\* a > b for digit strings of equal length
RECURSIVE DigitsGreater(_, _)
DigitsGreater(a, b) ==
    IF a = <<>> THEN FALSE
    ELSE IF Head(a) # Head(b) THEN Head(a) > Head(b)
    ELSE DigitsGreater(Tail(a), Tail(b))

\* the digits of INT_MAX and of -INT_MIN (32-bit int)
IntMaxDigits == <<50, 49, 52, 55, 52, 56, 51, 54, 52, 55>>
IntMinDigits == <<50, 49, 52, 55, 52, 56, 51, 54, 52, 56>>

\* std::stoi(s): leading white space, an optional sign, then the longest run of digits
stoi_negative(s) == SkipSpace(s) # <<>> /\ Head(SkipSpace(s)) = 45
stoi_number(s) ==
    LET t == SkipSpace(s)
    IN  DigitRun(IF t # <<>> /\ Head(t) \in {43, 45} THEN Tail(t) ELSE t)
\* no conversion could be performed: std::invalid_argument
stoi_invalid_argument(s) == stoi_number(s) = <<>>
\* the value does not fit an int: std::out_of_range
stoi_out_of_range(s) ==
    LET d   == StripZeros(stoi_number(s))
        lim == IF stoi_negative(s) THEN IntMinDigits ELSE IntMaxDigits
    IN  Len(d) > Len(lim) \/ (Len(d) = Len(lim) /\ DigitsGreater(d, lim))
stoi_throws(s) == stoi_invalid_argument(s) \/ stoi_out_of_range(s)
\* the int std::stoi returns when it does not throw
stoi_int(s) ==
    IF stoi_negative(s) THEN -stoi_digits(stoi_number(s), 0) ELSE stoi_digits(stoi_number(s), 0)

----------------------------------------------------------------------------
(* Caesar *)

Caesar_setKey_truncating(k) == CRem(k, 26)
Caesar_setKey_raw(k) == k

Caesar_setKey(k) == CRem(CRem(k, 26) + 26, 26)

Caesar_encryptChar_offByOne(c, k) ==
    IF isupper(c) THEN ToChar((c - 65 + k) + 66)
    ELSE IF islower(c) THEN ToChar((c - 97 + k) + 98)
    ELSE c

Caesar_encryptChar(c, k) ==
    IF isupper(c) THEN ToChar((c - 65 + k) + 65)
    ELSE IF islower(c) THEN ToChar((c - 97 + k) + 97)
    ELSE c

Caesar_decryptChar(c, k) ==
    IF isupper(c) THEN ToChar((c - 65 - k) + 65)
    ELSE IF islower(c) THEN ToChar((c - 97 - k) + 97)
    ELSE c

Caesar_encrypt(msg, k) ==
    [i \in 1..Len(msg) |->
        IF isalpha(msg[i]) THEN Caesar_encryptChar(msg[i], k) ELSE msg[i]]

Caesar_decrypt(msg, k) ==
    [i \in 1..Len(msg) |->
        IF isalpha(msg[i]) THEN Caesar_decryptChar(msg[i], k) ELSE msg[i]]

----------------------------------------------------------------------------
(* Vigenere *)

\* messageKey[i % size]; with size = 0 the index is undefined and u is what is read
KeyCharAt(mk, i, u) == IF Len(mk) = 0 THEN u ELSE mk[(i % Len(mk)) + 1]

encryptKeyChar_zeroBased(c) ==
    IF isupper(c) THEN c - 65
    ELSE IF islower(c) THEN c - 97
    ELSE 0

encryptKeyChar(c) ==
    IF isupper(c) THEN c - 65 + 1
    ELSE IF islower(c) THEN c - 97 + 1
    ELSE 0

Vigenere_encryptChar(c, i, mk, u) ==
    IF isupper(c) THEN ToChar(c - 65 + encryptKeyChar(KeyCharAt(mk, i, u)) + 65)
    ELSE IF islower(c) THEN ToChar(c - 97 + encryptKeyChar(KeyCharAt(mk, i, u)) + 97)
    ELSE c

Vigenere_decryptChar(c, k, mk, u) ==
    LET letter == KeyCharAt(mk, k, u)
        shift  == (IF isupper(letter) THEN CharVal(letter) - 65
                                      ELSE CharVal(letter) - 97) + 1
    IN  IF isupper(c) THEN ToChar(CRem(c - 65 - shift + 26, 26) + 65)
        ELSE IF islower(c) THEN ToChar(CRem(c - 97 - shift + 26, 26) + 97)
        ELSE c

\* the counter advances on letters only
Vigenere_encrypt_lettersOnly(msg, mk, u) ==
    [j \in 1..Len(msg) |->
        IF isalpha(msg[j])
        THEN Vigenere_encryptChar(msg[j], Cardinality({h \in 1..(j - 1) : isalpha(msg[h])}), mk, u)
        ELSE msg[j]]

\* the loop counter starts at 0 and is incremented for every message character
Vigenere_encrypt(msg, mk, u) ==
    [j \in 1..Len(msg) |->
        IF isalpha(msg[j]) THEN Vigenere_encryptChar(msg[j], j - 1, mk, u) ELSE msg[j]]

Vigenere_decrypt(msg, mk, u) ==
    [j \in 1..Len(msg) |->
        IF isalpha(msg[j]) THEN Vigenere_decryptChar(msg[j], j - 1, mk, u) ELSE msg[j]]

----------------------------------------------------------------------------
(* A1Z26 *)

A1Z26_encryptChar_unpadded(c) == to_string(tolower(c) - 96)
A1Z26_encryptChar_caseKept(c) ==
    LET p == c - 96
    IN  IF p < 10 THEN <<48>> \o to_string(p) ELSE to_string(p)

A1Z26_encryptChar(c) ==
    LET p == tolower(c) - 96
    IN  IF p < 10 THEN <<48>> \o to_string(p) ELSE to_string(p)

RECURSIVE A1Z26_encrypt(_)
A1Z26_encrypt(msg) ==
    IF msg = <<>> THEN <<>>
    ELSE LET c == Head(msg)
         IN  (IF isalpha(c) THEN A1Z26_encryptChar(c)
              ELSE IF isdigit(c) THEN <<ToChar(c + 48)>>
              ELSE <<c>>) \o A1Z26_encrypt(Tail(msg))

\* message.substr(pos, n), pos 0-based and pos <= size
substr(s, pos, n) ==
    LET last == IF pos + n > Len(s) THEN Len(s) ELSE pos + n
    IN  SubSeq(s, pos + 1, last)

\* message.substr(pos, n) throws std::out_of_range
substr_out_of_range(s, pos) == pos > Len(s)

GroupThrows_preIncrement(msg, i) ==
    substr_out_of_range(msg, i + 1) \/ stoi_throws(substr(msg, i + 1, 2))

\* message.substr(i++, 2) or the std::stoi of it throws at index i
GroupThrows(msg, i) ==
    substr_out_of_range(msg, i) \/ stoi_throws(substr(msg, i, 2))

\* some iteration of A1Z26::decrypt's loop, from index i (0-based) on, throws
RECURSIVE A1Z26_decryptThrows(_, _)
A1Z26_decryptThrows(msg, i) ==
    IF ~(i < Len(msg)) THEN FALSE
    ELSE IF isdigit(msg[i + 1])
         THEN GroupThrows(msg, i) \/ A1Z26_decryptThrows(msg, i + 2)
         ELSE A1Z26_decryptThrows(msg, i + 1)

\* the loop of A1Z26::decrypt from index i (0-based) on: what it appends
\* (up to the iteration that throws, if one does)
RECURSIVE A1Z26_decryptFrom(_, _)
A1Z26_decryptFrom(msg, i) ==
    IF ~(i < Len(msg)) THEN <<>>
    ELSE LET c == msg[i + 1]
         IN  IF isdigit(c)
             THEN IF GroupThrows(msg, i) THEN <<>>
                  ELSE <<ToChar(97 + stoi(substr(msg, i, 2)) - 1)>> \o A1Z26_decryptFrom(msg, i + 2)
             ELSE IF isalpha(c)
             THEN to_string(tolower(c) - 96) \o A1Z26_decryptFrom(msg, i + 1)
             ELSE <<c>> \o A1Z26_decryptFrom(msg, i + 1)

A1Z26_decrypt(msg) == A1Z26_decryptFrom(msg, 0)

----------------------------------------------------------------------------
(* Atbash *)

Atbash_encryptChar_lowerOnly(c) ==
    IF islower(c) THEN ToChar(122 - (c - 97))
    ELSE c

Atbash_encryptChar(c) ==
    IF isupper(c) THEN ToChar(90 - (c - 65))
    ELSE IF islower(c) THEN ToChar(122 - (c - 97))
    ELSE c

Atbash_encrypt(msg) ==
    [i \in 1..Len(msg) |->
        IF isalpha(msg[i]) THEN Atbash_encryptChar(msg[i]) ELSE msg[i]]

----------------------------------------------------------------------------
(* main: readKey *)

\* readKey's scan of the line: every character is a digit, or is '-' at index 0
readKey_is_digit(line) ==
    \A i \in 1..Len(line) : ~(~isdigit(line[i]) /\ ~(i - 1 = 0 /\ line[i] = 45))

\* lines typed at the "Choose a key number." prompt:
\* "", "-", "3", "-3", "23", "007", "3a", "a", " 3", "--3", "2147483647", "2147483648", "99999999999"
KeyLines == {<<>>,
             <<45>>,
             <<51>>,
             <<45, 51>>,
             <<50, 51>>,
             <<48, 48, 55>>,
             <<51, 97>>,
             <<97>>,
             <<32, 51>>,
             <<45, 45, 51>>,
             <<50, 49, 52, 55, 52, 56, 51, 54, 52, 55>>,
             <<50, 49, 52, 55, 52, 56, 51, 54, 52, 56>>,
             <<57, 57, 57, 57, 57, 57, 57, 57, 57, 57, 57>>}

----------------------------------------------------------------------------
(* The object and its caller *)

MsgChars ==
    CASE cipher = "Caesar"   -> CaesarChars
      [] cipher = "Vigenere" -> VigenereChars
      [] cipher = "A1Z26"    -> A1Z26Chars
      [] cipher = "Atbash"   -> AtbashChars

DocMessages ==
    CASE cipher = "Caesar"   -> CaesarDocMessages
      [] cipher = "Vigenere" -> VigenereDocMessages
      [] cipher = "A1Z26"    -> A1Z26DocMessages
      [] cipher = "Atbash"   -> AtbashDocMessages

\* what the caller may pass to setMessage, setKey and setKeyMessage
MessageInputs == IF inputs = "bounded" THEN SeqsUpTo(MsgChars, MaxLen) ELSE DocMessages
KeyInputs     == IF inputs = "bounded" THEN RawKeys ELSE DocKeys
KeywordInputs == IF inputs = "bounded" THEN Keywords ELSE DocKeywords

\* how far the caller lets an accumulating cipher append: up to MaxOut, or (the
\* documented examples) one transform per object and the second leg of a round trip
Room(out) ==
    IF inputs = "bounded" THEN Len(encrypted_message) + Len(out) <= MaxOut
    ELSE encrypted_message = <<>> \/ rt = "fed"

\* a default-constructed object of class c
InitObject(c) ==
    /\ cipher = c
    /\ message = <<>>
    /\ encrypted_message = <<>>
    /\ key = Indeterminate
    /\ held = (IF c = "Caesar" THEN KeyResidues ELSE {})
    /\ messageKey = <<>>
    /\ fault = "none"
    /\ keySet = FALSE
    /\ rawKey = 0
    /\ lastOp = "none"
    /\ rt = "none"
    /\ orig = <<>>
    /\ base = 0
    /\ keyLine = <<>>
    /\ keyRead = "none"

InitFor(c) == InitObject(c) /\ inputs = "bounded"
InitDoc(c) == InitObject(c) /\ inputs = "documented"

Transformed_consuming(op) ==
    /\ lastOp' = op
    /\ rt' = CASE rt = "none" -> "none"
               [] rt = "fed"  -> "done"
               [] OTHER       -> "off"
    /\ message' = <<>>
    /\ UNCHANGED <<cipher, key, messageKey, keySet, rawKey, orig, inputs, keyLine, keyRead>>

\* the observers after a transform op
Transformed(op) ==
    /\ lastOp' = op
    /\ rt' = CASE rt = "none" -> "none"
               [] rt = "fed"  -> "done"
               [] OTHER       -> "off"
    /\ UNCHANGED <<cipher, message, key, messageKey, keySet, rawKey, orig, inputs, keyLine, keyRead>>

\* the object goes away and a new one is declared, in a new run of the program
\* or by a later call in the same process: its key is indeterminate again, and
\* its storage holds what anything before it left there
Construct ==
    /\ message' = <<>>
    /\ encrypted_message' = <<>>
    /\ key' = Indeterminate
    /\ held' = (IF cipher = "Caesar" THEN KeyResidues ELSE {})
    /\ messageKey' = <<>>
    /\ fault' = "none"
    /\ keySet' = FALSE
    /\ rawKey' = 0
    /\ lastOp' = "none"
    /\ rt' = "none"
    /\ orig' = <<>>
    /\ base' = 0
    /\ keyLine' = <<>>
    /\ keyRead' = "none"
    /\ UNCHANGED <<cipher, inputs>>

SetMessage_clearing ==
    /\ fault = "none"
    /\ \E m \in MessageInputs : message' = m
    /\ encrypted_message' = <<>>
    /\ lastOp' = "none"
    /\ rt' = "none"
    /\ orig' = <<>>
    /\ base' = 0
    /\ UNCHANGED <<cipher, key, held, messageKey, fault, keySet, rawKey, inputs, keyLine, keyRead>>

SetMessage ==
    /\ fault = "none"
    /\ \E m \in MessageInputs : message' = m
    /\ lastOp' = "none"
    /\ rt' = "none"
    /\ orig' = <<>>
    /\ base' = 0
    /\ UNCHANGED <<cipher, encrypted_message, key, held, messageKey, fault, keySet, rawKey, inputs, keyLine, keyRead>>

\* setMessage(getEncryptedMessage()) after an encrypt(): the start of a round trip
Feedback ==
    /\ fault = "none"
    /\ lastOp = "encrypt"
    /\ rt = "none"
    /\ message' = encrypted_message
    /\ orig' = message
    /\ rt' = "fed"
    /\ lastOp' = "none"
    /\ base' = 0
    /\ UNCHANGED <<cipher, encrypted_message, key, held, messageKey, fault, keySet, rawKey, inputs, keyLine, keyRead>>

SetKey ==
    /\ cipher = "Caesar"
    /\ fault = "none"
    /\ rt = "none"
    /\ \E k \in KeyInputs :
          /\ key' = <<Caesar_setKey(k)>>
          /\ held' = {Caesar_setKey(k)}
          /\ rawKey' = k
    /\ keySet' = TRUE
    /\ lastOp' = "none"
    /\ base' = 0
    /\ UNCHANGED <<cipher, message, encrypted_message, messageKey, fault, rt, orig, inputs, keyLine, keyRead>>

SetKeyMessage ==
    /\ cipher = "Vigenere"
    /\ fault = "none"
    /\ rt = "none"
    /\ \E n \in KeywordInputs : messageKey' = n
    /\ lastOp' = "none"
    /\ base' = 0
    /\ UNCHANGED <<cipher, message, encrypted_message, key, held, fault, keySet, rawKey, rt, orig, inputs, keyLine, keyRead>>

\* caesar.setKey(readKey()) in main, one line read per step: readKey prompts
\* again after a line it rejects, and std::stoi's exception is caught nowhere
ReadKey ==
    /\ cipher = "Caesar"
    /\ fault = "none"
    /\ rt = "none"
    /\ \E line \in KeyLines :
          /\ keyLine' = line
          /\ IF ~readKey_is_digit(line)
             THEN /\ keyRead' = "rejected"
                  /\ UNCHANGED <<key, held, rawKey, keySet, fault, lastOp, base>>
             ELSE IF stoi_throws(line)
             THEN /\ keyRead' = "threw"
                  /\ fault' = "exception"
                  /\ UNCHANGED <<key, held, rawKey, keySet, lastOp, base>>
             ELSE /\ keyRead' = "returned"
                  /\ key' = <<Caesar_setKey(stoi_int(line))>>
                  /\ held' = {Caesar_setKey(stoi_int(line))}
                  /\ rawKey' = stoi_int(line)
                  /\ keySet' = TRUE
                  /\ lastOp' = "none"
                  /\ base' = 0
                  /\ fault' = fault
    /\ UNCHANGED <<cipher, message, encrypted_message, messageKey, rt, orig, inputs>>

\* i % messageKey.size() is evaluated with size = 0
ModuloByZero == messageKey = <<>> /\ HasAlpha(message)
\* a <cctype> function is applied to a negative char
CtypeUndefined == HasHigh(message)
VigenereUndefined == ModuloByZero \/ CtypeUndefined

\* encryptChar and decryptChar read key, once per letter of the message: a
\* transform of a message with a letter in it fixes what the storage is seen to hold
CaesarEncrypt ==
    /\ cipher = "Caesar"
    /\ fault = "none"
    /\ \/ \E k \in held :
             /\ encrypted_message' = Caesar_encrypt(message, k)
             /\ held' = (IF HasAlpha(message) THEN {k} ELSE held)
             /\ fault' = "none"
       \/ /\ CtypeUndefined
          /\ encrypted_message' = <<>>
          /\ fault' = "trap"
          /\ UNCHANGED held
    /\ base' = 0
    /\ Transformed("encrypt")

CaesarDecrypt ==
    /\ cipher = "Caesar"
    /\ fault = "none"
    /\ \/ \E k \in held :
             /\ encrypted_message' = Caesar_decrypt(message, k)
             /\ held' = (IF HasAlpha(message) THEN {k} ELSE held)
             /\ fault' = "none"
       \/ /\ CtypeUndefined
          /\ encrypted_message' = <<>>
          /\ fault' = "trap"
          /\ UNCHANGED held
    /\ base' = 0
    /\ Transformed("decrypt")

VigenereEncrypt ==
    /\ cipher = "Vigenere"
    /\ fault = "none"
    /\ \/ /\ ~ModuloByZero
          /\ encrypted_message' = Vigenere_encrypt(message, messageKey, 0)
          /\ fault' = "none"
       \/ /\ ModuloByZero
          /\ \E u \in IndeterminateChars :
                encrypted_message' = Vigenere_encrypt(message, messageKey, u)
          /\ fault' = "none"
       \/ /\ VigenereUndefined
          /\ encrypted_message' = <<>>
          /\ fault' = "trap"
    /\ base' = 0
    /\ UNCHANGED held
    /\ Transformed("encrypt")

VigenereDecrypt ==
    /\ cipher = "Vigenere"
    /\ fault = "none"
    /\ \/ /\ ~ModuloByZero
          /\ encrypted_message' = Vigenere_decrypt(message, messageKey, 0)
          /\ fault' = "none"
       \/ /\ ModuloByZero
          /\ \E u \in IndeterminateChars :
                encrypted_message' = Vigenere_decrypt(message, messageKey, u)
          /\ fault' = "none"
       \/ /\ VigenereUndefined
          /\ encrypted_message' = <<>>
          /\ fault' = "trap"
    /\ base' = 0
    /\ UNCHANGED held
    /\ Transformed("decrypt")

\* A1Z26 and Atbash append to encrypted_message without clearing it
A1Z26Encrypt ==
    /\ cipher = "A1Z26"
    /\ fault = "none"
    /\ Room(A1Z26_encrypt(message))
    /\ base' = Len(encrypted_message)
    /\ encrypted_message' = encrypted_message \o A1Z26_encrypt(message)
    /\ fault' = "none"
    /\ UNCHANGED held
    /\ Transformed("encrypt")

A1Z26Decrypt ==
    /\ cipher = "A1Z26"
    /\ fault = "none"
    /\ Room(A1Z26_decrypt(message))
    /\ base' = Len(encrypted_message)
    /\ encrypted_message' = encrypted_message \o A1Z26_decrypt(message)
    /\ fault' = IF A1Z26_decryptThrows(message, 0) THEN "exception" ELSE "none"
    /\ UNCHANGED held
    /\ Transformed("decrypt")

AtbashEncrypt ==
    /\ cipher = "Atbash"
    /\ fault = "none"
    /\ Room(message)
    /\ base' = Len(encrypted_message)
    /\ encrypted_message' = encrypted_message \o Atbash_encrypt(message)
    /\ fault' = "none"
    /\ UNCHANGED held
    /\ Transformed("encrypt")

\* Atbash::decrypt calls encrypt()
AtbashDecrypt ==
    /\ cipher = "Atbash"
    /\ fault = "none"
    /\ Room(message)
    /\ base' = Len(encrypted_message)
    /\ encrypted_message' = encrypted_message \o Atbash_encrypt(message)
    /\ fault' = "none"
    /\ UNCHANGED held
    /\ Transformed("decrypt")

----------------------------------------------------------------------------
(* Specifications: one per cipher class *)

InitCaesar   == InitFor("Caesar")
InitVigenere == InitFor("Vigenere")
InitA1Z26    == InitFor("A1Z26")
InitAtbash   == InitFor("Atbash")

NextCaesar ==
    Construct \/ SetMessage \/ Feedback \/ SetKey \/ CaesarEncrypt \/ CaesarDecrypt
NextVigenere ==
    Construct \/ SetMessage \/ Feedback \/ SetKeyMessage \/ VigenereEncrypt \/ VigenereDecrypt
NextA1Z26 ==
    Construct \/ SetMessage \/ Feedback \/ A1Z26Encrypt \/ A1Z26Decrypt
NextAtbash ==
    Construct \/ SetMessage \/ Feedback \/ AtbashEncrypt \/ AtbashDecrypt

SpecCaesar   == InitCaesar /\ [][NextCaesar]_vars
SpecVigenere == InitVigenere /\ [][NextVigenere]_vars
SpecA1Z26    == InitA1Z26 /\ [][NextA1Z26]_vars
SpecAtbash   == InitAtbash /\ [][NextAtbash]_vars

\* the same objects driven with the documented examples
InitCaesarDoc   == InitDoc("Caesar")
InitVigenereDoc == InitDoc("Vigenere")
InitA1Z26Doc    == InitDoc("A1Z26")
InitAtbashDoc   == InitDoc("Atbash")

SpecCaesarDoc   == InitCaesarDoc /\ [][NextCaesar]_vars
SpecVigenereDoc == InitVigenereDoc /\ [][NextVigenere]_vars
SpecA1Z26Doc    == InitA1Z26Doc /\ [][NextA1Z26]_vars
SpecAtbashDoc   == InitAtbashDoc /\ [][NextAtbash]_vars

\* the Caesar branch of main: the key comes from readKey
NextCaesarMain ==
    Construct \/ SetMessage \/ Feedback \/ ReadKey \/ CaesarEncrypt \/ CaesarDecrypt
SpecCaesarMain == InitCaesarDoc /\ [][NextCaesarMain]_vars

\* any of the four ciphers, driven with the documented examples
InitSuiteDoc == InitCaesarDoc \/ InitVigenereDoc \/ InitA1Z26Doc \/ InitAtbashDoc
NextSuite == NextCaesar \/ NextVigenere \/ NextA1Z26 \/ NextAtbash
SpecSuiteDoc == InitSuiteDoc /\ [][NextSuite]_vars

TypeOK ==
    /\ cipher \in {"Caesar", "Vigenere", "A1Z26", "Atbash"}
    /\ \A i \in 1..Len(message) : message[i] \in 0..255
    /\ \A i \in 1..Len(encrypted_message) : encrypted_message[i] \in 0..255
    /\ key = Indeterminate \/ (Len(key) = 1 /\ key[1] \in 0..25)
    /\ keySet <=> key # Indeterminate
    /\ held \subseteq KeyResidues
    /\ cipher = "Caesar" <=> held # {}
    /\ keySet => held = {key[1]}
    /\ fault \in {"none", "trap", "exception"}
    /\ lastOp \in {"none", "encrypt", "decrypt"}
    /\ rt \in {"none", "fed", "done", "off"}
    /\ base \in 0..Len(encrypted_message)
    /\ inputs \in {"bounded", "documented"}
    /\ keyRead \in {"none", "rejected", "returned", "threw"}

----------------------------------------------------------------------------
(* Properties *)

\* a transform has run on the stored message and key, and returned
Ran(c, op) == cipher = c /\ lastOp = op /\ fault = "none"
\* a round trip has finished: encrypt, result fed back as the message, then op
RoundTrip(c, op) == Ran(c, op) /\ rt = "done"

lowercase(s) == [i \in 1..Len(s) |-> tolower(s[i])]
AllAlpha(s) == \A i \in 1..Len(s) : isalpha(s[i])

\* C1: Caesar round trip: with a key set, encrypt() of M, the result fed back as
\* the message, then decrypt() under the same key yields exactly M.
C1_CaesarRoundTrip ==
    (RoundTrip("Caesar", "decrypt") /\ keySet) => encrypted_message = orig

\* C2: Vigenere round trip: for every non-empty keyword, encrypt() of M followed
\* by decrypt() of that result under the same keyword yields exactly M.
C2_VigenereRoundTrip ==
    (RoundTrip("Vigenere", "decrypt") /\ messageKey # <<>>) => encrypted_message = orig

\* C3: A1Z26 round trip: for every all-alphabetic message L, encrypt() of L
\* followed by decrypt() of that result yields L in lowercase.
C3_A1Z26RoundTrip ==
    (RoundTrip("A1Z26", "decrypt") /\ AllAlpha(orig)) => encrypted_message = lowercase(orig)

\* C4: Atbash involution: encrypt() of M followed by encrypt() of that result
\* yields exactly M.
C4_AtbashInvolution ==
    RoundTrip("Atbash", "encrypt") => encrypted_message = orig

\* what the last transform makes of the stored message, for a transform that
\* ran defined (non-empty keyword, no negative char)
LastOutput ==
    CASE cipher = "Caesar" /\ lastOp = "encrypt"   -> Caesar_encrypt(message, key[1])
      [] cipher = "Caesar" /\ lastOp = "decrypt"   -> Caesar_decrypt(message, key[1])
      [] cipher = "Vigenere" /\ lastOp = "encrypt" -> Vigenere_encrypt(message, messageKey, 0)
      [] cipher = "Vigenere" /\ lastOp = "decrypt" -> Vigenere_decrypt(message, messageKey, 0)
      [] cipher = "A1Z26" /\ lastOp = "encrypt"    -> A1Z26_encrypt(message)
      [] cipher = "A1Z26" /\ lastOp = "decrypt"    -> A1Z26_decrypt(message)
      [] cipher = "Atbash" /\ lastOp \in {"encrypt", "decrypt"} -> Atbash_encrypt(message)
      [] OTHER -> <<>>

\* C5: after a call sequence that ends with a transform, getEncryptedMessage()
\* is exactly the output of that transform on the stored message, with nothing
\* left from earlier transforms on the same object.
C5_ResultIsLastOutput ==
    (lastOp # "none" /\ fault = "none" /\ ~ModuloByZero) => encrypted_message = LastOutput

\* C6: after setKey(k) the stored key is ((k mod 26) + 26) mod 26: it lies in
\* 0..25 and is congruent to k modulo 26.
C6_KeyNormalized ==
    keySet => /\ key[1] \in 0..25
              /\ (key[1] - rawKey) % 26 = 0
              /\ key[1] = ((rawKey % 26) + 26) % 26

C6_Witness == keySet /\ rawKey = -3 /\ key = <<23>>

\* the forward shift the specification gives for a letter c and a key k
ShiftForward(c, k) ==
    IF isupper(c) THEN ((c - 65 + k) % 26) + 65 ELSE ((c - 97 + k) % 26) + 97

\* C7: Caesar encrypt wraps modulo 26: every letter c of the message becomes
\* ((c - base + key) mod 26) + base, a letter of the same case.
C7_CaesarForwardWraps ==
    (Ran("Caesar", "encrypt") /\ keySet /\ ~CtypeUndefined) =>
        \A i \in 1..Len(message) :
            isalpha(message[i]) =>
                /\ encrypted_message[i] = ShiftForward(message[i], key[1])
                /\ isalpha(encrypted_message[i])

\* C8: Caesar decrypt maps every letter c to what the forward shift by
\* (26 - key) mod 26 gives, which is a letter.
C8_CaesarBackwardWraps ==
    (Ran("Caesar", "decrypt") /\ keySet /\ ~CtypeUndefined) =>
        \A i \in 1..Len(message) :
            isalpha(message[i]) =>
                /\ encrypted_message[i] = ShiftForward(message[i], (26 - key[1]) % 26)
                /\ isalpha(encrypted_message[i])

\* C9: Caesar key periodicity: the result of encrypt() under setKey(k) is the
\* result encrypt() gives for the same message under setKey(k + 26).
C9_KeyPeriodic ==
    (Ran("Caesar", "encrypt") /\ keySet /\ ~CtypeUndefined) =>
        encrypted_message = Caesar_encrypt(message, Caesar_setKey(rawKey + 26))

C9_Witness ==
    /\ Ran("Caesar", "encrypt") /\ keySet /\ rawKey = -3
    /\ message = <<65, 44>> /\ encrypted_message = <<88, 44>>

\* C10: Vigenere with an empty keyword and a message that holds a letter:
\* encrypt()/decrypt() signals a configuration error (InvalidKey) instead of
\* taking an index modulo zero.
C10_EmptyKeywordFailsFast ==
    (cipher = "Vigenere" /\ lastOp # "none" /\ messageKey = <<>> /\ HasAlpha(message))
        => fault = "InvalidKey"

\* the scan of A1Z26::decrypt from index i meets a digit that has no second
\* character after it
RECURSIVE EndsOnLoneDigit(_, _)
EndsOnLoneDigit(msg, i) ==
    IF ~(i < Len(msg)) THEN FALSE
    ELSE IF isdigit(msg[i + 1])
         THEN IF i + 2 > Len(msg) THEN TRUE ELSE EndsOnLoneDigit(msg, i + 2)
         ELSE EndsOnLoneDigit(msg, i + 1)

\* C11: A1Z26 decrypt of a message that ends in a lone digit starting a new
\* group ends in a defined failure (MalformedInput), not in an emitted letter.
C11_LoneDigitFails ==
    (cipher = "A1Z26" /\ lastOp = "decrypt" /\ EndsOnLoneDigit(message, 0))
        => fault = "MalformedInput"

\* the scan of A1Z26::decrypt from index i meets a two-character group whose
\* value is outside 1..26
RECURSIVE HasBadGroup(_, _)
HasBadGroup(msg, i) ==
    IF ~(i < Len(msg)) THEN FALSE
    ELSE IF isdigit(msg[i + 1])
         THEN \/ (i + 2 <= Len(msg) /\ stoi(substr(msg, i, 2)) \notin 1..26)
              \/ HasBadGroup(msg, i + 2)
         ELSE HasBadGroup(msg, i + 1)

\* C12: A1Z26 decrypt of a message with a two-character group whose value is
\* outside 1..26 ("00", "27") signals MalformedInput and emits nothing for it.
C12_BadGroupFails ==
    (cipher = "A1Z26" /\ lastOp = "decrypt" /\ HasBadGroup(message, 0))
        => fault = "MalformedInput"

\* what the last transform appended to encrypted_message
Emitted == SubSeq(encrypted_message, base + 1, Len(encrypted_message))

\* the last transform ran with every operand defined
RanDefined ==
    /\ lastOp # "none" /\ fault = "none"
    /\ cipher = "Caesar" => keySet
    /\ cipher = "Vigenere" => ~ModuloByZero
    /\ ~CtypeUndefined

\* C13: case preservation for Caesar, Vigenere and Atbash, in both directions:
\* the output character for an uppercase letter is an uppercase letter and the
\* output character for a lowercase letter is a lowercase letter.
C13_CasePreserved ==
    (cipher \in {"Caesar", "Vigenere", "Atbash"} /\ RanDefined) =>
        \A i \in 1..Len(message) :
            /\ isupper(message[i]) => (i <= Len(Emitted) /\ isupper(Emitted[i]))
            /\ islower(message[i]) => (i <= Len(Emitted) /\ islower(Emitted[i]))

\* C14: length preservation for Caesar, Vigenere and Atbash: after encrypt() or
\* decrypt() the result of getEncryptedMessage() is as long as the stored message.
C14_LengthPreserved ==
    (cipher \in {"Caesar", "Vigenere", "Atbash"} /\ RanDefined) =>
        Len(encrypted_message) = Len(message)

\* C15: non-alphabetic pass-through for Caesar, Vigenere and Atbash: every
\* non-alphabetic character of the message is unchanged at the same position
\* of the result.
C15_NonAlphaPassThrough ==
    (cipher \in {"Caesar", "Vigenere", "Atbash"} /\ RanDefined) =>
        \A i \in 1..Len(message) :
            ~isalpha(message[i]) =>
                (i <= Len(encrypted_message) /\ encrypted_message[i] = message[i])

\* the 1-based alphabet position of a keyword letter
AlphabetPosition(c) == IF isupper(c) THEN c - 64 ELSE c - 96
AllUpper(s) == \A i \in 1..Len(s) : isupper(s[i])

\* C16: Vigenere encrypt shifts the letter at index i forward by the 1-based
\* alphabet position of keyword[i mod keywordLength], wrapping modulo 26 inside
\* its case; "ATTACKATDAWN" under "LEMON" comes out all uppercase.
C16_VigenereForwardWraps ==
    (Ran("Vigenere", "encrypt") /\ messageKey # <<>> /\ AllAlpha(messageKey)
        /\ ~CtypeUndefined) =>
        /\ \A i \in 1..Len(message) :
              isalpha(message[i]) =>
                  encrypted_message[i] =
                      ShiftForward(message[i],
                          AlphabetPosition(messageKey[((i - 1) % Len(messageKey)) + 1]))
        /\ (message = ATTACKATDAWN /\ messageKey = LEMON) => AllUpper(encrypted_message)

\* C17: the documented Caesar scenarios: key 3 takes "HELLO, WORLD!" to
\* "KHOOR, ZRUOG!" and decrypt takes it back; key -3 takes "abc" to "xyz".
C17_CaesarScenarios ==
    /\ (Ran("Caesar", "encrypt") /\ keySet /\ rawKey = 3 /\ message = HELLO_WORLD)
           => encrypted_message = KHOOR_ZRUOG
    /\ (Ran("Caesar", "decrypt") /\ keySet /\ rawKey = 3 /\ message = KHOOR_ZRUOG)
           => encrypted_message = HELLO_WORLD
    /\ (Ran("Caesar", "encrypt") /\ keySet /\ rawKey = -3 /\ message = abc)
           => encrypted_message = xyz

C17_Witness ==
    /\ RoundTrip("Caesar", "decrypt") /\ keySet /\ rawKey = 3
    /\ orig = HELLO_WORLD /\ message = KHOOR_ZRUOG /\ encrypted_message = HELLO_WORLD

\* "0805121215"
D0805121215 == <<48, 56, 48, 53, 49, 50, 49, 50, 49, 53>>
\* "85121215"
D85121215 == <<56, 53, 49, 50, 49, 50, 49, 53>>

NumAlpha(s) == Cardinality({i \in 1..Len(s) : isalpha(s[i])})

\* C18: A1Z26 encrypt emits exactly two decimal digits for every letter, the
\* letter's 1-based alphabet position zero-padded, whatever its case; for
\* "HELLO" it emits "0805121215".
C18_TwoDigitsPerLetter ==
    Ran("A1Z26", "encrypt") =>
        /\ Len(Emitted) = Len(message) + NumAlpha(message)
        /\ AllAlpha(message) =>
              \A i \in 1..Len(message) :
                  /\ isdigit(Emitted[2 * i - 1]) /\ isdigit(Emitted[2 * i])
                  /\ 10 * (Emitted[2 * i - 1] - 48) + (Emitted[2 * i] - 48)
                        = AlphabetPosition(message[i])
        /\ message = HELLO => Emitted = D0805121215

C18_Witness ==
    Ran("A1Z26", "encrypt") /\ message = HELLO /\ encrypted_message = D0805121215

\* t occurs in s as a contiguous substring
Contains(s, t) ==
    \E k \in 0..(Len(s) - Len(t)) : SubSeq(s, k + 1, k + Len(t)) = t

\* C19 as stated: A1Z26 encrypt of "HELLO" produces output that contains
\* "85121215", the positions without zero padding.
C19_UnpaddedOutput ==
    (Ran("A1Z26", "encrypt") /\ message = HELLO) => Contains(encrypted_message, D85121215)

\* C19 amended: what A1Z26 encrypt appends for "HELLO" is the zero-padded
\* "0805121215", in which "85121215" does not occur.
C19_PaddedOutput ==
    (Ran("A1Z26", "encrypt") /\ message = HELLO) =>
        /\ Contains(encrypted_message, D0805121215)
        /\ ~Contains(Emitted, D85121215)

C19_Witness ==
    /\ Ran("A1Z26", "encrypt") /\ message = HELLO /\ base = 0
    /\ Len(encrypted_message) = 10 /\ encrypted_message[1] = 48

\* "SXVRGD LX FZAN"
SXVRGD_LX_FZAN == <<83, 88, 86, 82, 71, 68, 32, 76, 88, 32, 70, 90, 65, 78>>
\* "TYWSHE FW IUPS": the text with every shift wrapped modulo 26
TYWSHE_FW_IUPS == <<84, 89, 87, 83, 72, 69, 32, 70, 87, 32, 73, 85, 80, 83>>

\* the keyword character the claim assigns to message position j (1-based)
KeywordAt(j) == messageKey[((j - 1) % Len(messageKey)) + 1]

\* the shift of the letter at position j (1-based) stays inside the alphabet
NoWrapAt(j) ==
    IF isupper(message[j]) THEN message[j] + AlphabetPosition(KeywordAt(j)) <= 90
    ELSE message[j] + AlphabetPosition(KeywordAt(j)) <= 122

\* C20 as stated: Vigenere encrypt of "ATTACK AT DAWN" under "SECRET" yields
\* "SXVRGD LX FZAN".
C20_ReadmeOutput ==
    (Ran("Vigenere", "encrypt") /\ message = ATTACK_AT_DAWN /\ messageKey = SECRET)
        => encrypted_message = SXVRGD_LX_FZAN

\* C20 amended: Vigenere encrypt of "ATTACK AT DAWN" under "SECRET" does not
\* yield the README's text: the result has the 14 characters of "TYWSHE FW IUPS"
\* (1-based keyword shifts, the spaces kept and taking a keyword position each)
\* at every position whose shift stays inside the alphabet.
C20_CodeOutput ==
    (Ran("Vigenere", "encrypt") /\ message = ATTACK_AT_DAWN /\ messageKey = SECRET) =>
        /\ encrypted_message # SXVRGD_LX_FZAN
        /\ Len(encrypted_message) = Len(TYWSHE_FW_IUPS)
        /\ \A j \in 1..Len(message) :
              (~isalpha(message[j]) \/ NoWrapAt(j)) =>
                  encrypted_message[j] = TYWSHE_FW_IUPS[j]

C20_Witness ==
    /\ Ran("Vigenere", "encrypt") /\ message = ATTACK_AT_DAWN /\ messageKey = SECRET
    /\ SubSeq(encrypted_message, 1, 5) = SubSeq(TYWSHE_FW_IUPS, 1, 5)
    /\ encrypted_message[7] = 32 /\ encrypted_message[10] = 32

\* the Atbash mirror image of a character, as the claim gives it
Mirror(c) ==
    IF isupper(c) THEN 90 - (c - 65)
    ELSE IF islower(c) THEN 122 - (c - 97)
    ELSE c

\* C21: Atbash decrypt() does what encrypt() does: either call appends, for
\* every message character c, 'Z' - (c - 'A') if c is uppercase, 'z' - (c - 'a')
\* if c is lowercase and c itself otherwise; for "HELLO" that is "SVOOL" and
\* for "SVOOL" it is "HELLO".
C21_AtbashMirror ==
    (cipher = "Atbash" /\ lastOp # "none" /\ fault = "none") =>
        /\ Len(Emitted) = Len(message)
        /\ \A i \in 1..Len(message) : Emitted[i] = Mirror(message[i])
        /\ message = HELLO => Emitted = SVOOL
        /\ message = SVOOL => Emitted = HELLO

C21_Witness ==
    /\ Ran("Atbash", "decrypt") /\ message = SVOOL /\ orig = HELLO
    /\ Emitted = HELLO

\* where A1Z26 encrypt puts what it appends for the message character at
\* position i (1-based): two places per earlier letter, one per other character
EncryptedPos(msg, i) == i + Cardinality({h \in 1..(i - 1) : isalpha(msg[h])})

\* C22: A1Z26 encrypt passes digits through: every digit character of the
\* message appears unchanged in what encrypt appends.
C22_DigitsPassThrough ==
    Ran("A1Z26", "encrypt") =>
        \A i \in 1..Len(message) :
            isdigit(message[i]) =>
                /\ EncryptedPos(message, i) <= Len(Emitted)
                /\ Emitted[EncryptedPos(message, i)] = message[i]

\* the characters of s that are neither letters nor digits, in order
RECURSIVE Others(_)
Others(s) ==
    IF s = <<>> THEN <<>>
    ELSE IF isalpha(Head(s)) \/ isdigit(Head(s)) THEN Others(Tail(s))
    ELSE <<Head(s)>> \o Others(Tail(s))

\* t can be obtained from s by deleting characters
RECURSIVE IsSubsequence(_, _)
IsSubsequence(t, s) ==
    IF t = <<>> THEN TRUE
    ELSE IF s = <<>> THEN FALSE
    ELSE IF Head(t) = Head(s) THEN IsSubsequence(Tail(t), Tail(s))
    ELSE IsSubsequence(t, Tail(s))

\* C23: A1Z26 decrypt passes every character that is neither a letter nor a
\* digit through: each of them appears in what decrypt appends, in order,
\* whatever precedes it.
C23_OthersPassThrough ==
    Ran("A1Z26", "decrypt") => IsSubsequence(Others(message), Emitted)

\* C24: Vigenere keyword cycling: in encrypt() and in decrypt() the character
\* at index i is transformed as a one-character message under the one-character
\* keyword keyword[i mod keywordLength], i counting every message character;
\* a non-letter is emitted unchanged and still takes its keyword position.
C24_KeywordCycling ==
    (cipher = "Vigenere" /\ lastOp # "none" /\ fault = "none"
        /\ messageKey # <<>> /\ ~CtypeUndefined) =>
        /\ Len(encrypted_message) = Len(message)
        /\ \A j \in 1..Len(message) :
              /\ lastOp = "encrypt" =>
                    encrypted_message[j] =
                        Vigenere_encrypt(<<message[j]>>, <<KeywordAt(j)>>, 0)[1]
              /\ lastOp = "decrypt" =>
                    encrypted_message[j] =
                        Vigenere_decrypt(<<message[j]>>, <<KeywordAt(j)>>, 0)[1]
              /\ ~isalpha(message[j]) => encrypted_message[j] = message[j]

\* ' ' then 'A' under "bZ": the space has taken 'b', so 'A' is shifted by 'Z'
C24_Witness ==
    /\ Ran("Vigenere", "encrypt") /\ message = <<32, 65>> /\ messageKey = <<98, 90>>
    /\ encrypted_message = <<32, 91>>

ShiftBackward(c, k) ==
    IF isupper(c) THEN ((c - 65 - k) % 26) + 65 ELSE ((c - 97 - k) % 26) + 97

\* the keyword offset of the claim: 1-based alphabet position, 0 for a non-letter
KeywordOffset(c) == IF isalpha(c) THEN AlphabetPosition(c) ELSE 0

\* C25: the Vigenere keyword offset is one function in both directions: the
\* 1-based alphabet position of a keyword letter, 0 for any other keyword
\* character; decrypt() shifts a letter back by it, and a letter aligned with a
\* non-letter keyword character is left unchanged by encrypt() and by decrypt().
C25_OneKeywordOffset ==
    (cipher = "Vigenere" /\ lastOp # "none" /\ fault = "none"
        /\ messageKey # <<>> /\ ~CtypeUndefined) =>
        \A j \in 1..Len(message) :
            isalpha(message[j]) =>
                /\ lastOp = "decrypt" =>
                      encrypted_message[j] =
                          ShiftBackward(message[j], KeywordOffset(KeywordAt(j)))
                /\ ~isalpha(KeywordAt(j)) => encrypted_message[j] = message[j]

\* out is what the claim's scan of msg from index i (0-based) emits
RECURSIVE ScanEmits(_, _, _)
ScanEmits(msg, i, out) ==
    IF ~(i < Len(msg)) THEN out = <<>>
    ELSE LET c == msg[i + 1]
         IN  IF isdigit(c)
             THEN /\ i + 2 <= Len(msg)
                  /\ out # <<>>
                  /\ islower(Head(out))
                  /\ Head(out) = 97 + stoi(SubSeq(msg, i + 1, i + 2)) - 1
                  /\ ScanEmits(msg, i + 2, Tail(out))
             ELSE IF isalpha(c)
             THEN LET d == to_string(AlphabetPosition(c))
                  IN  /\ Len(out) >= Len(d)
                      /\ SubSeq(out, 1, Len(d)) = d
                      /\ ScanEmits(msg, i + 1, SubSeq(out, Len(d) + 1, Len(out)))
             ELSE /\ out # <<>>
                  /\ Head(out) = c
                  /\ ScanEmits(msg, i + 1, Tail(out))

\* C26: A1Z26 decrypt scans left to right: a digit takes exactly two characters
\* as one group of value n and emits exactly one lowercase letter 'a' + n - 1;
\* a letter emits its 1-based position in decimal without padding; the scan
\* resumes after the characters taken.
C26_DecryptScan ==
    Ran("A1Z26", "decrypt") => ScanEmits(message, 0, Emitted)

\* a setter or a transform has just been called (primed variables are the state after it)
SetterStep == SetMessage \/ Feedback \/ SetKey \/ SetKeyMessage
TransformStep ==
    \/ CaesarEncrypt \/ CaesarDecrypt \/ VigenereEncrypt \/ VigenereDecrypt
    \/ A1Z26Encrypt \/ A1Z26Decrypt \/ AtbashEncrypt \/ AtbashDecrypt

\* C27: configuration performs no transformation: setMessage, Caesar::setKey
\* and Vigenere::setKeyMessage leave what getEncryptedMessage() returns unchanged.
C27_SettersKeepResult ==
    [][SetterStep => encrypted_message' = encrypted_message]_vars

\* a setter was called after a transform, and the transform's result is still there
C27_Witness ==
    /\ cipher = "Vigenere" /\ lastOp = "none" /\ rt = "none"
    /\ message = HELLO /\ messageKey = SECRET
    /\ encrypted_message # <<>> /\ Len(encrypted_message) # Len(message)

\* C28: transforms do not modify their inputs: encrypt() and decrypt() of every
\* cipher leave the stored message and the stored key and keyword unchanged.
C28_TransformsKeepInputs ==
    [][TransformStep =>
          (message' = message /\ key' = key /\ messageKey' = messageKey)]_vars

\* a transform ran on an object that already held the result of an earlier one
C28_Witness ==
    /\ Ran("Atbash", "encrypt") /\ message = HELLO
    /\ encrypted_message = HELLO \o SVOOL

\* every group decrypt parses, scanning msg from index i (0-based): one or two
\* characters inside the message, the first a digit, the value in 0..99
RECURSIVE GroupsParse(_, _)
GroupsParse(msg, i) ==
    IF ~(i < Len(msg)) THEN TRUE
    ELSE IF isdigit(msg[i + 1])
         THEN LET g == SubSeq(msg, i + 1, IF i + 2 <= Len(msg) THEN i + 2 ELSE Len(msg))
              IN  /\ Len(g) \in 1..2
                  /\ isdigit(g[1])
                  /\ ~stoi_throws(g)
                  /\ stoi_int(g) \in 0..99
                  /\ GroupsParse(msg, i + 2)
         ELSE GroupsParse(msg, i + 1)

\* C29: A1Z26 decrypt completes without an error for every message: what it
\* parses is a group of one or two characters that starts with a digit, so the
\* parse succeeds with a value in 0..99 and no index outside the message is read.
C29_DecryptNeverThrows ==
    (cipher = "A1Z26" /\ lastOp = "decrypt") =>
        /\ fault = "none"
        /\ GroupsParse(message, 0)

\* a lone digit at the end of the message was decoded
C29_Witness ==
    /\ cipher = "A1Z26" /\ lastOp = "decrypt" /\ fault = "none"
    /\ message = <<65, 49>> /\ Emitted = <<49, 97>>

\* the integer a line of the form [-]digits denotes
Denotes(line) ==
    IF Head(line) = 45 THEN -stoi_digits(Tail(line), 0) ELSE stoi_digits(line, 0)

\* C30: readKey validates before parsing: every line is either rejected (and
\* the prompt repeated) or returned as the integer it denotes; no line, the
\* empty line and a lone "-" included, makes the parse fail.
C30_ReadKeyValidates ==
    keyRead # "none" =>
        \/ keyRead = "rejected"
        \/ keyRead = "returned" /\ rawKey = Denotes(keyLine)

====
